---- MODULE Spec2Model ----
(***************************************************************************)
(* Model of the class Composition of SCJingleConverter (composition.cpp):  *)
(* the MusicXML score builder (Composition::parse and the handlers it      *)
(* calls), the export configuration and its queries, and the download of   *)
(* the notes over the serial port.                                         *)
(*                                                                         *)
(* The XML reader is the environment: every token the dispatcher of        *)
(* parse() reacts to is one action, with the element's children (the       *)
(* handler's inner read loop) as the action's inputs.                      *)
(***************************************************************************)
EXTENDS Integers, Sequences, FiniteSets, TLC

(***************************************************************************)
(* Bounds of the model.                                                    *)
(***************************************************************************)
MaxDur == 2         \* raw <duration> texts are -1..MaxDur
MaxFreqs == 3       \* frequencies in the timeline (notes and chord members)
MaxMeas == 2        \* measures of one part
MaxCursor == 2      \* value of currPart

VARIABLES
    parts,          \* Composition::parts: the timeline
    currPart,       \* Composition::currPart: the current-part cursor
    currDivisions,  \* Composition::currDivisions
    bpm,            \* Composition::bpm
    backups,        \* Composition::backups: remaining durations, top last
    prevParts,      \* Composition::prevParts: cursors to restore, top last
    pc,             \* "idle" (no parse running), "parsing", "crashed"
    rc,             \* the ErrorCode parse() returned last ("NONE": none yet)
    afterNote,      \* the element parse() handled last was a <note> without <chord/>
    msg,            \* the qDebug() message of the failure that ended the parse
    scopeDur,       \* per open scope: the duration its backup element gave
    scopeSum,       \* per open scope: raw durations of the notes committed in it
    doc,            \* the tokens of the file parse() reads (SpecDoc)
    pos,            \* the reader's place in doc: the next token
    partIdxR,       \* Composition::partIdxR: the part of the right channel
    partIdxL,       \* Composition::partIdxL: the part of the left channel
    measStartIdx,   \* Composition::measStartIdx
    measEndIdx,     \* Composition::measEndIdx
    ret,            \* [op, val]: the call that returned last and its value
                    \* ("running": download() has not returned yet)
    dl,             \* download(): [st, jingleIdx], st "idle", or "waiting"
                    \* inside serial.send(); jingleIdx its parameter
    sent,           \* the commands download() has handed to serial.send()
    pass,           \* the calls of parse() so far (SpecReparse)
    first,          \* [rc, parts]: what the first call of parse() gave
    resp,           \* what serial.send() has answered in this download (SpecRuns)
    prev,           \* the download that returned before this one (SpecRuns)
    owners,         \* <<Part index, source part>> of the notes appended (SpecVoices)
    buff,           \* cmdline.c, handleSerial: static uint8_t buff[]
    buff_cnt        \* cmdline.c, handleSerial: static uint32_t buff_cnt

\* The export configuration, and what the caller and the serial port see.
exportVars == <<partIdxR, partIdxL, measStartIdx, measEndIdx, ret, dl, sent>>

\* The caller's record of its calls of parse().
passVars == <<pass, first>>

\* The record of the downloads made, and the command line of the DevKit.
runVars == <<resp, prev>>
consoleVars == <<buff, buff_cnt>>

\* What the builder, the export calls and the caller of parse() leave alone.
auxVars == <<runVars, owners, consoleVars>>

vars == <<parts, currPart, currDivisions, bpm, backups, prevParts, pc, rc, afterNote,
          msg, scopeDur, scopeSum, doc, pos, exportVars, passVars, auxVars>>

----------------------------------------------------------------------------
(***************************************************************************)
(* Helpers on sequences and numbers.                                       *)
(***************************************************************************)
Last(s) == s[Len(s)]
Front(s) == SubSeq(s, 1, Len(s) - 1)

RECURSIVE Gcd(_, _)
Gcd(a, b) == IF b = 0 THEN a ELSE Gcd(b, a % b)

\* QString::toUInt(): a text is modelled by the unsigned number it spells, and
\* by -1 when it spells none (empty, letters, a sign); toUInt() gives 0 then.
toUInt(text) == IF text < 0 THEN 0 ELSE text

\* uint32_t subtraction. TLC's integers are 32 bit wide, so the wrap is kept
\* at a narrower width: a - b below zero wraps to the top of the range.
UintMod == 2 ^ 16
USub(a, b) == (a - b + UintMod) % UintMod

\* Length without the division by currDivisions.
Length_Undivided(raw, div) == <<raw, 1>>

\* static_cast<float>(raw) / currDivisions: the quotient as a reduced fraction
\* <<num, den>>; <<1, 0>> is +inf (x / 0) and <<0, 0>> is NaN (0 / 0).
Length(raw, div) ==
    IF div = 0 THEN (IF raw = 0 THEN <<0, 0>> ELSE <<1, 0>>)
    ELSE <<raw \div Gcd(raw, div), div \div Gcd(raw, div)>>

\* float length = 0.f
ZeroLength == <<0, 1>>

----------------------------------------------------------------------------
(***************************************************************************)
(* The timeline.                                                           *)
(***************************************************************************)
NewMeasure == [notes |-> <<>>, xmlDurationSum |-> 0]
NewPart == [measures |-> <<>>]

RECURSIVE SumSeq(_)
SumSeq(s) == IF s = <<>> THEN 0 ELSE Head(s) + SumSeq(Tail(s))

NotesOfPart(p) == SumSeq([m \in 1..Len(p.measures) |-> Len(p.measures[m].notes)])
NoteCount(ps) == SumSeq([p \in 1..Len(ps) |-> NotesOfPart(ps[p])])
FreqCount(ps) ==
    SumSeq([p \in 1..Len(ps) |->
        SumSeq([m \in 1..Len(ps[p].measures) |->
            SumSeq([n \in 1..Len(ps[p].measures[m].notes) |->
                Len(ps[p].measures[m].notes[n].frequencies)])])])

----------------------------------------------------------------------------
(***************************************************************************)
(* Composition::parseXmlPitch.  A frequency C_0_FREQ * twelth_root_of_two^n *)
(* is modelled by <<n>>, n the number of multiplications the loop makes;   *)
(* <<>> is the initial 0.f of a note without a pitch child.                *)
(***************************************************************************)
HALF_STEPS_PER_OCTAVE == 12

StepOffset(step) ==
    CASE step = "C" -> 0
      [] step = "D" -> 2
      [] step = "E" -> 4
      [] step = "F" -> 5
      [] step = "G" -> 7
      [] step = "A" -> 9
      [] step = "B" -> 11
      [] OTHER -> -1

ValidStep(step) == step \in {"C", "D", "E", "F", "G", "A", "B"}

\* for (cnt = 0; cnt < num_half_steps; cnt++) factor *= twelth_root_of_two
NumMultiplications(num_half_steps) ==
    IF num_half_steps > 0 THEN num_half_steps ELSE 0

parseXmlPitch(step, alter, octave) ==
    IF ~ValidStep(step)
    THEN [err |-> TRUE, freq |-> <<>>]
    ELSE [err |-> FALSE,
          freq |-> <<NumMultiplications(octave * HALF_STEPS_PER_OCTAVE + alter
                                          + StepOffset(step))>>]

----------------------------------------------------------------------------
(***************************************************************************)
(* The backup stacks.  A stack state is [backups, prevParts, currPart].    *)
(***************************************************************************)
Stacks(bk, pp, cp) == [backups |-> bk, prevParts |-> pp, currPart |-> cp]

\* PopScope that forgets currPart = prevParts.top().
PopScope_KeepsCursor(st) ==
    [backups |-> Front(st.backups),
     prevParts |-> IF st.prevParts = <<>> THEN <<>> ELSE Front(st.prevParts),
     currPart |-> st.currPart]

\* backups.pop(); currPart = prevParts.top(); prevParts.pop();
\* (prevParts is never empty here: the stacks have the same depth)
PopScope(st) ==
    [backups |-> Front(st.backups),
     prevParts |-> IF st.prevParts = <<>> THEN <<>> ELSE Front(st.prevParts),
     currPart |-> IF st.prevParts = <<>> THEN st.currPart ELSE Last(st.prevParts)]

\* parseXmlNote, on entry: pop the scope a zero top counter has closed.
EntryPop(st) ==
    IF st.backups # <<>> /\ Last(st.backups) = 0 THEN PopScope(st) ELSE st

\* Drain without the test of the counter: every scope is popped.
RECURSIVE Drain_Unchecked(_)
Drain_Unchecked(st) ==
    IF st.backups = <<>> THEN [st |-> st, err |-> FALSE]
    ELSE Drain_Unchecked([backups |-> Front(st.backups),
                          prevParts |-> Front(st.prevParts),
                          currPart |-> Last(st.prevParts)])

\* parse(), at <measure> and </part>: while (backups.size()) { if (top != 0)
\* return XML_PARSE; pop }.  Gives the stacks where the loop stops and
\* whether it stopped on the error.
RECURSIVE Drain(_)
Drain(st) ==
    IF st.backups = <<>> THEN [st |-> st, err |-> FALSE]
    ELSE IF Last(st.backups) # 0 THEN [st |-> st, err |-> TRUE]
    ELSE Drain(PopScope(st))

\* PushScope that forgets prevParts.push(currPart).
PushScope_OneStack(st, duration) ==
    IF duration = 0
    THEN [st |-> st, err |-> TRUE]
    ELSE [st |-> [backups |-> Append(st.backups, duration),
                  prevParts |-> st.prevParts,
                  currPart |-> st.currPart + 1],
          err |-> FALSE]

\* PushScope without the test for a zero duration.
PushScope_ZeroAllowed(st, duration) ==
    [st |-> [backups |-> Append(st.backups, duration),
             prevParts |-> Append(st.prevParts, st.currPart),
             currPart |-> st.currPart + 1],
     err |-> FALSE]

\* parseXmlBackup: if (duration == 0) return XML_PARSE; else push both, cursor++
PushScope(st, duration) ==
    IF duration = 0
    THEN [st |-> st, err |-> TRUE]
    ELSE [st |-> [backups |-> Append(st.backups, duration),
                  prevParts |-> Append(st.prevParts, st.currPart),
                  currPart |-> st.currPart + 1],
          err |-> FALSE]

\* ConsumeBackup that checks the note against the counter and leaves the
\* counter as it was.
ConsumeBackup_NoUpdate(bk, raw) ==
    IF bk = <<>> THEN [backups |-> bk, err |-> FALSE]
    ELSE IF raw > Last(bk) THEN [backups |-> bk, err |-> TRUE]
    ELSE [backups |-> bk, err |-> FALSE]

\* ConsumeBackup without the underflow test: the subtraction wraps.
ConsumeBackup_NoUnderflowTest(bk, raw) ==
    IF bk = <<>> THEN [backups |-> bk, err |-> FALSE]
    ELSE [backups |-> Append(Front(bk), USub(Last(bk), raw)), err |-> FALSE]

\* parseXmlNote, after a non-chord note: the top counter pays for the note.
ConsumeBackup(bk, raw) ==
    IF bk = <<>> THEN [backups |-> bk, err |-> FALSE]
    ELSE IF raw > Last(bk) THEN [backups |-> bk, err |-> TRUE]
    ELSE [backups |-> Append(Front(bk), USub(Last(bk), raw)), err |-> FALSE]

----------------------------------------------------------------------------
(***************************************************************************)
(* Timeline updates of parse() and parseXmlNote.  Part index cp is the     *)
(* 0-based cursor; parts[cp] of the code is ps[cp + 1] here.               *)
(***************************************************************************)
\* for (parts_idx = currPart; parts_idx < parts.size(); parts_idx++)
\*     parts[parts_idx].measures.push_back(Measure());
AddMeasures(ps, cp) ==
    [p \in 1..Len(ps) |->
        IF p - 1 >= cp
        THEN [ps[p] EXCEPT !.measures = Append(@, NewMeasure)]
        ELSE ps[p]]

\* if (currPart >= parts.size()) parts.push_back(Part());
EnsurePart(ps, cp) == IF cp >= Len(ps) THEN Append(ps, NewPart) ELSE ps

\* if (part.measures.size() < 1) part.measures.push_back(Measure());
EnsureMeasure(ps, cp) ==
    IF Len(ps[cp + 1].measures) < 1
    THEN [ps EXCEPT ![cp + 1].measures = Append(@, NewMeasure)]
    ELSE ps

\* AppendChord that starts a note when the measure has none.
AppendChord_StartsNote(ps, cp, freq) ==
    LET m == Len(ps[cp + 1].measures)
        n == Len(ps[cp + 1].measures[m].notes)
    IN  IF n < 1
        THEN [parts |-> [ps EXCEPT ![cp + 1].measures[m].notes =
                            <<[frequencies |-> <<freq>>, length |-> ZeroLength]>>],
              err |-> FALSE]
        ELSE [parts |-> [ps EXCEPT ![cp + 1].measures[m].notes[n].frequencies =
                                        Append(@, freq)],
              err |-> FALSE]

\* The chord branch: the frequency joins the last note of the last measure.
AppendChord(ps, cp, freq) ==
    LET m == Len(ps[cp + 1].measures)
        n == Len(ps[cp + 1].measures[m].notes)
    IN  IF n < 1
        THEN [parts |-> ps, err |-> TRUE]
        ELSE [parts |-> [ps EXCEPT ![cp + 1].measures[m].notes[n].frequencies =
                                        Append(@, freq)],
              err |-> FALSE]

\* The note branch: a new Note at the end of the last measure.
AppendNote(ps, cp, freq, length, raw) ==
    LET m == Len(ps[cp + 1].measures)
    IN  [ps EXCEPT ![cp + 1].measures[m] =
            [notes |-> Append(@.notes, [frequencies |-> <<freq>>, length |-> length]),
             xmlDurationSum |-> (@.xmlDurationSum + raw) % UintMod]]

----------------------------------------------------------------------------
(***************************************************************************)
(* Inputs: the texts and children the reader can deliver.                  *)
(***************************************************************************)
DurTexts == -1..MaxDur
DivTexts == {1}
BpmTexts == {100}
PitchSteps == {"D", "H"}
PitchAlters == {0}
PitchOctaves == {0}

\* No download has returned yet.
NoRun == [made |-> FALSE, cfg |-> <<>>, jingleIdx |-> 0, resp |-> <<>>, sent |-> <<>>]

\* sizeof(buff) of handleSerial (cmdline.c), which is 64, scaled down.
BuffSize == 4

(***************************************************************************)
(* Init: the Composition as its constructor leaves it; the two stacks are  *)
(* default-constructed members.                                            *)
(***************************************************************************)
InitComposition ==
    /\ parts = <<>>
    /\ currPart = 0
    /\ currDivisions = 1
    /\ bpm = 100
    /\ backups = <<>>
    /\ prevParts = <<>>
    /\ pc = "idle"
    /\ rc = "NONE"
    /\ afterNote = FALSE
    /\ msg = "none"
    /\ scopeDur = <<>>
    /\ scopeSum = <<>>
    /\ partIdxR = 0
    /\ partIdxL = 0
    /\ measStartIdx = 0
    /\ measEndIdx = 0
    /\ ret = [op |-> "none", val |-> 0]
    /\ dl = [st |-> "idle", jingleIdx |-> 0]
    /\ sent = <<>>
    /\ pass = 0
    /\ first = [rc |-> "NONE", parts |-> <<>>]
    /\ resp = <<>>
    /\ prev = NoRun
    /\ owners = {}
    /\ buff = [i \in 0..(BuffSize - 1) |-> 0]
    /\ buff_cnt = 0

\* What a handler's return does to parse(): an error code ends the pass.
Return(err, why) ==
    /\ pc' = IF err THEN "idle" ELSE "parsing"
    /\ rc' = IF err THEN "XML_PARSE" ELSE rc
    /\ msg' = IF err THEN why ELSE msg

\* The scopes that stay open keep their history.
KeepScopes(depth) ==
    /\ scopeDur' = SubSeq(scopeDur, 1, depth)
    /\ scopeSum' = SubSeq(scopeSum, 1, depth)

\* A committed non-chord note counts in the scope that is open on top.
CountInScope(depth, raw) ==
    /\ scopeDur' = SubSeq(scopeDur, 1, depth)
    /\ scopeSum' = [i \in 1..depth |->
                        IF i = depth THEN scopeSum[i] + raw ELSE scopeSum[i]]

(***************************************************************************)
(* parse(): the start of a pass.  parts and currPart are reset; the stacks *)
(* are not touched.  The file may fail to open.                            *)
(***************************************************************************)
parse ==
    /\ pc = "idle"
    /\ parts' = <<>>
    /\ currPart' = 0
    /\ afterNote' = FALSE
    /\ \E opened \in BOOLEAN :
          /\ pc' = IF opened THEN "parsing" ELSE "idle"
          /\ rc' = IF opened THEN "NONE" ELSE "FILE_OPEN"
          /\ msg' = IF opened THEN "none" ELSE "Failed to open file"
    /\ UNCHANGED <<currDivisions, bpm, backups, prevParts, scopeDur, scopeSum>>

(***************************************************************************)
(* <note>: parseXmlNote.  The children are the inputs: a chord marker, a   *)
(* duration text, a pitch.                                                 *)
(***************************************************************************)
parseXmlNote(isChord, hasDur, durText, hasPitch, step, alter, octave) ==
    /\ pc = "parsing"
    /\ LET e == EntryPop(Stacks(backups, prevParts, currPart))
           depth == Len(e.backups)
           pr == IF hasPitch THEN parseXmlPitch(step, alter, octave)
                 ELSE [err |-> FALSE, freq |-> <<>>]
           raw == IF hasDur THEN toUInt(durText) ELSE 0
           length == IF hasDur THEN Length(toUInt(durText), currDivisions)
                     ELSE ZeroLength
           ps1 == EnsurePart(parts, e.currPart)
           inRange == e.currPart < Len(ps1)
       IN
       /\ afterNote' = ~isChord
       /\ prevParts' = e.prevParts
       /\ currPart' = e.currPart
       /\ UNCHANGED <<currDivisions, bpm>>
       /\ IF pr.err
          THEN \* parsePitch() failed: nothing is committed
               /\ parts' = parts
               /\ backups' = e.backups
               /\ Return(TRUE, "InvalidPitch")
               /\ KeepScopes(depth)
          ELSE IF ~inRange
          THEN \* parts[currPart] is past the end of the vector: undefined
               \* behaviour.  The process dies, or the handler works on
               \* memory that is no Part of the timeline.
               /\ parts' = ps1
               /\ \/ /\ pc' = "crashed"
                     /\ backups' = e.backups
                     /\ KeepScopes(depth)
                     /\ UNCHANGED <<rc, msg>>
                  \/ /\ isChord
                     /\ backups' = e.backups
                     /\ KeepScopes(depth)
                     /\ \E err \in BOOLEAN : Return(err, "ChordWithoutNote")
                  \/ /\ ~isChord
                     /\ LET b == ConsumeBackup(e.backups, raw)
                        IN  /\ backups' = b.backups
                            /\ Return(b.err, "BackupUnderflow")
                     /\ IF depth > 0 THEN CountInScope(depth, raw)
                        ELSE KeepScopes(depth)
          ELSE LET ps2 == EnsureMeasure(ps1, e.currPart)
               IN  IF isChord
                   THEN LET c == AppendChord(ps2, e.currPart, pr.freq)
                        IN  /\ FreqCount(parts) < MaxFreqs
                            /\ parts' = c.parts
                            /\ backups' = e.backups
                            /\ Return(c.err, "ChordWithoutNote")
                            /\ KeepScopes(depth)
                   ELSE LET b == ConsumeBackup(e.backups, raw)
                        IN  /\ FreqCount(parts) < MaxFreqs
                            /\ parts' = AppendNote(ps2, e.currPart, pr.freq, length, raw)
                            /\ backups' = b.backups
                            /\ Return(b.err, "BackupUnderflow")
                            /\ IF depth > 0 THEN CountInScope(depth, raw)
                               ELSE KeepScopes(depth)

(***************************************************************************)
(* <backup>: parseXmlBackup.  Without a duration child duration stays 0.   *)
(***************************************************************************)
parseXmlBackup(hasDur, durText) ==
    /\ pc = "parsing"
    /\ currPart < MaxCursor
    /\ LET duration == IF hasDur THEN toUInt(durText) ELSE 0
           r == PushScope(Stacks(backups, prevParts, currPart), duration)
       IN  /\ backups' = r.st.backups
           /\ prevParts' = r.st.prevParts
           /\ currPart' = r.st.currPart
           /\ Return(r.err, "ZeroBackup")
           /\ IF r.err
              THEN UNCHANGED <<scopeDur, scopeSum>>
              ELSE /\ scopeDur' = Append(scopeDur, duration)
                   /\ scopeSum' = Append(scopeSum, 0)
    /\ afterNote' = FALSE
    /\ UNCHANGED <<parts, currDivisions, bpm>>

(***************************************************************************)
(* <measure>: drain the stacks, then a new measure for every part from the *)
(* cursor on.                                                              *)
(***************************************************************************)
MeasureStart ==
    /\ pc = "parsing"
    /\ \A p \in 1..Len(parts) : Len(parts[p].measures) < MaxMeas
    /\ LET d == Drain(Stacks(backups, prevParts, currPart))
       IN  /\ backups' = d.st.backups
           /\ prevParts' = d.st.prevParts
           /\ currPart' = d.st.currPart
           /\ parts' = IF d.err THEN parts ELSE AddMeasures(parts, d.st.currPart)
           /\ Return(d.err, "UnresolvedBackup")
           /\ KeepScopes(Len(d.st.backups))
    /\ afterNote' = FALSE
    /\ UNCHANGED <<currDivisions, bpm>>

(***************************************************************************)
(* </part>: drain the stacks, then the cursor moves on by one.             *)
(***************************************************************************)
PartEnd ==
    /\ pc = "parsing"
    /\ currPart < MaxCursor
    /\ LET d == Drain(Stacks(backups, prevParts, currPart))
       IN  /\ backups' = d.st.backups
           /\ prevParts' = d.st.prevParts
           /\ currPart' = IF d.err THEN d.st.currPart ELSE d.st.currPart + 1
           /\ Return(d.err, "UnresolvedBackup")
           /\ KeepScopes(Len(d.st.backups))
    /\ afterNote' = FALSE
    /\ UNCHANGED <<parts, currDivisions, bpm>>

(***************************************************************************)
(* <per-minute> and <divisions>: the next text sets the value.             *)
(***************************************************************************)
PerMinute(text) ==
    /\ pc = "parsing"
    /\ bpm' = toUInt(text)
    /\ afterNote' = FALSE
    /\ UNCHANGED <<parts, currPart, currDivisions, backups, prevParts, pc, rc,
                   msg, scopeDur, scopeSum>>

Divisions(text) ==
    /\ pc = "parsing"
    /\ currDivisions' = toUInt(text)
    /\ afterNote' = FALSE
    /\ UNCHANGED <<parts, currPart, bpm, backups, prevParts, pc, rc, msg,
                   scopeDur, scopeSum>>

(***************************************************************************)
(* EndDocument: the loop of parse() ends and parse() returns NO_ERROR.     *)
(***************************************************************************)
EndDocument ==
    /\ pc = "parsing"
    /\ pc' = "idle"
    /\ rc' = "NO_ERROR"
    /\ afterNote' = FALSE
    /\ UNCHANGED <<parts, currPart, currDivisions, bpm, backups, prevParts, msg,
                   scopeDur, scopeSum>>

----------------------------------------------------------------------------
\* The caller: parse() is called once on a Composition just constructed, so
\* a pass of Spec and SpecDoc starts with empty stacks.
FirstParse == rc = "NONE" /\ parse /\ UNCHANGED <<doc, pos, exportVars, passVars, auxVars>>

\* The notes of Spec carry a duration and a pitch; a step that is no letter
\* of the scale makes parseXmlPitch fail.
NoteElement ==
    \E isChord \in BOOLEAN, hasDur \in BOOLEAN, durText \in DurTexts,
       hasPitch \in BOOLEAN, step \in PitchSteps, alter \in PitchAlters,
       octave \in PitchOctaves :
        /\ hasDur /\ hasPitch
        /\ parseXmlNote(isChord, hasDur, durText, hasPitch, step, alter, octave)
        /\ UNCHANGED <<doc, pos, exportVars, passVars, auxVars>>

BackupElement ==
    \E hasDur \in BOOLEAN, durText \in DurTexts :
        /\ hasDur \/ durText = 0
        /\ parseXmlBackup(hasDur, durText)
        /\ UNCHANGED <<doc, pos, exportVars, passVars, auxVars>>

MeasureElement == MeasureStart /\ UNCHANGED <<doc, pos, exportVars, passVars, auxVars>>

PartEndElement == PartEnd /\ UNCHANGED <<doc, pos, exportVars, passVars, auxVars>>

PerMinuteElement ==
    \E text \in BpmTexts : PerMinute(text) /\ UNCHANGED <<doc, pos, exportVars, passVars, auxVars>>

DivisionsElement ==
    \E text \in DivTexts : Divisions(text) /\ UNCHANGED <<doc, pos, exportVars, passVars, auxVars>>

EndOfDocument == EndDocument /\ UNCHANGED <<doc, pos, exportVars, passVars, auxVars>>

Init == InitComposition /\ doc = <<>> /\ pos = 1

Next ==
    \/ FirstParse
    \/ NoteElement
    \/ BackupElement
    \/ MeasureElement
    \/ PartEndElement
    \/ PerMinuteElement
    \/ DivisionsElement
    \/ EndOfDocument

\* One parse pass of a freshly constructed Composition over any token stream.
Spec == Init /\ [][Next]_vars

----------------------------------------------------------------------------
(***************************************************************************)
(* SpecDoc: parse() reads a given document, token by token.  A token is    *)
(* [el, chord, text, step]: the element, and for a note its chord marker,  *)
(* duration text and pitch step (octave 4, no alter), for the others the   *)
(* text that follows.                                                      *)
(***************************************************************************)
MaxDocLen == 4

Token(el, chord, text, step) ==
    [el |-> el, chord |-> chord, text |-> text, step |-> step]

DocTokens ==
    {Token("measure", FALSE, 0, ""), Token("endpart", FALSE, 0, ""),
     Token("divisions", FALSE, 4, ""), Token("divisions", FALSE, 0, ""),
     Token("per-minute", FALSE, 60, ""),
     Token("note", FALSE, 4, "C"), Token("note", TRUE, 4, "C"),
     Token("note", FALSE, 2, "C"),
     Token("backup", FALSE, 4, "")}

Docs == UNION {[1..n -> DocTokens] : n \in 0..MaxDocLen}

InitDoc == InitComposition /\ doc \in Docs /\ pos = 1

\* The dispatch of parse() on the token read.
Dispatch(t) ==
    \/ t.el = "note" /\ parseXmlNote(t.chord, TRUE, t.text, TRUE, t.step, 0, 4)
    \/ t.el = "backup" /\ parseXmlBackup(TRUE, t.text)
    \/ t.el = "measure" /\ MeasureStart
    \/ t.el = "endpart" /\ PartEnd
    \/ t.el = "per-minute" /\ PerMinute(t.text)
    \/ t.el = "divisions" /\ Divisions(t.text)

DocParse == rc = "NONE" /\ parse /\ UNCHANGED <<doc, pos, exportVars, passVars, auxVars>>

DocToken ==
    /\ pos <= Len(doc)
    /\ Dispatch(doc[pos])
    /\ pos' = pos + 1
    /\ doc' = doc
    /\ UNCHANGED <<exportVars, passVars, auxVars>>

DocEnd == pos > Len(doc) /\ EndDocument /\ UNCHANGED <<doc, pos, exportVars, passVars, auxVars>>

NextDoc == DocParse \/ DocToken \/ DocEnd

SpecDoc == InitDoc /\ [][NextDoc]_vars

----------------------------------------------------------------------------
(***************************************************************************)
(* The export side of Composition: the configuration setters, the queries  *)
(* and download().  The caller is the environment: it calls them on a      *)
(* Composition that has parsed a file, one call at a time.                 *)
(***************************************************************************)
MaxParts == 2       \* parts of a parsed timeline
MaxNotes == 2       \* notes of one measure of a parsed timeline

\* The variables of the score builder that the export side only reads.
builderVars == <<parts, currPart, currDivisions, bpm, backups, prevParts, rc,
                 afterNote, msg, scopeDur, scopeSum, doc, pos, passVars>>

Channels == {"RIGHT", "LEFT"}
PartIdxArgs == 0..MaxParts
MeasIdxArgs == 0..MaxMeas
JingleIdxs == {0}

\* The value a call hands back to its caller.
Returned(op, val) == ret' = [op |-> op, val |-> val]

\* setPartIdx without the test of partIdx against parts.size().
setPartIdx_NoBoundsTest(chan, partIdx) ==
    /\ pc = "idle" /\ dl.st = "idle"
    /\ Returned("setPartIdx", "NO_ERROR")
    /\ partIdxR' = IF chan = "RIGHT" THEN partIdx ELSE partIdxR
    /\ partIdxL' = IF chan = "LEFT" THEN partIdx ELSE partIdxL
    /\ UNCHANGED <<measStartIdx, measEndIdx, dl, sent, pc, builderVars>>

\* Composition::setPartIdx
setPartIdx(chan, partIdx) ==
    /\ pc = "idle" /\ dl.st = "idle"
    /\ IF partIdx >= Len(parts)
       THEN /\ Returned("setPartIdx", "BAD_IDX")
            /\ UNCHANGED <<partIdxR, partIdxL>>
       ELSE /\ Returned("setPartIdx", "NO_ERROR")
            /\ partIdxR' = IF chan = "RIGHT" THEN partIdx ELSE partIdxR
            /\ partIdxL' = IF chan = "LEFT" THEN partIdx ELSE partIdxL
    /\ UNCHANGED <<measStartIdx, measEndIdx, dl, sent, pc, builderVars>>

\* Composition::getPartIdx
getPartIdx(chan) == IF chan = "RIGHT" THEN partIdxR ELSE partIdxL

\* Composition::setMeasStartIdx: the parameter is tested against the measures
\* of parts[0].
setMeasStartIdx(idx) ==
    /\ pc = "idle" /\ dl.st = "idle"
    /\ IF Len(parts) = 0
       THEN Returned("setMeasStartIdx", "BAD_IDX") /\ UNCHANGED measStartIdx
       ELSE IF idx >= Len(parts[1].measures)
       THEN Returned("setMeasStartIdx", "BAD_IDX") /\ UNCHANGED measStartIdx
       ELSE Returned("setMeasStartIdx", "NO_ERROR") /\ measStartIdx' = idx
    /\ UNCHANGED <<partIdxR, partIdxL, measEndIdx, dl, sent, pc, builderVars>>

\* Composition::setMeasEndIdx: the test reads measStartIdx, which here is the
\* member (the parameter is named measEndIdx), and then the parameter is
\* stored.
setMeasEndIdx(idx) ==
    /\ pc = "idle" /\ dl.st = "idle"
    /\ IF Len(parts) = 0
       THEN Returned("setMeasEndIdx", "BAD_IDX") /\ UNCHANGED measEndIdx
       ELSE IF measStartIdx >= Len(parts[1].measures)
       THEN Returned("setMeasEndIdx", "BAD_IDX") /\ UNCHANGED measEndIdx
       ELSE Returned("setMeasEndIdx", "NO_ERROR") /\ measEndIdx' = idx
    /\ UNCHANGED <<partIdxR, partIdxL, measStartIdx, dl, sent, pc, builderVars>>

----------------------------------------------------------------------------
(***************************************************************************)
(* Composition::getMemUsage                                                *)
(***************************************************************************)
NUM_JINGLE_HDR_BYTES == 4
BYTES_PER_NOTE == 6

\* The notes of measures [s, e) of a part (0-based, as far as they exist).
NotesInRange(part, s, e) ==
    SumSeq([m \in 1..Len(part.measures) |->
                IF s <= m - 1 /\ m - 1 < e THEN Len(part.measures[m].notes) ELSE 0])

\* parts[part_idx_r], parts[part_idx_l] and every measures[meas_idx] the loop
\* of getMemUsage reads exist.
MemUsageInBounds ==
    /\ getPartIdx("RIGHT") < Len(parts)
    /\ getPartIdx("LEFT") < Len(parts)
    /\ \A meas_idx \in measStartIdx..(measEndIdx - 1) :
          /\ meas_idx < Len(parts[getPartIdx("RIGHT") + 1].measures)
          /\ meas_idx < Len(parts[getPartIdx("LEFT") + 1].measures)

\* The local byte_cnt when the loop of getMemUsage has ended.
byte_cnt ==
    NUM_JINGLE_HDR_BYTES
    + NotesInRange(parts[getPartIdx("RIGHT") + 1], measStartIdx, measEndIdx)
      * BYTES_PER_NOTE
    + NotesInRange(parts[getPartIdx("LEFT") + 1], measStartIdx, measEndIdx)
      * BYTES_PER_NOTE

\* getMemUsage ends with "return 0;": byte_cnt is computed and dropped.  An
\* index past the end of a vector is undefined behaviour: the process dies,
\* or the call returns as it does otherwise.
getMemUsage ==
    /\ pc = "idle" /\ dl.st = "idle"
    /\ \/ Returned("getMemUsage", 0) /\ pc' = pc
       \/ ~MemUsageInBounds /\ pc' = "crashed" /\ ret' = ret
    /\ UNCHANGED <<partIdxR, partIdxL, measStartIdx, measEndIdx, dl, sent,
                   builderVars>>

----------------------------------------------------------------------------
(***************************************************************************)
(* Composition::getNumChords                                               *)
(***************************************************************************)
SetMax(S) == IF S = {} THEN 0 ELSE CHOOSE x \in S : \A y \in S : y <= x

\* The loop: the largest frequencies.size() of the notes of measures [s, e).
max_chord_size(part, s, e) ==
    SetMax({Len(part.measures[m + 1].notes[n].frequencies) :
                <<m, n>> \in {<<mm, nn>> \in (s..(e - 1)) \X (1..MaxNotes) :
                                  nn <= Len(part.measures[mm + 1].notes)}})

NumChords(ps, partIdx, s, e) ==
    IF partIdx >= Len(ps) THEN 0
    ELSE IF s >= Len(ps[partIdx + 1].measures) \/ e >= Len(ps[partIdx + 1].measures)
    THEN 0
    ELSE max_chord_size(ps[partIdx + 1], s, e)

getNumChords(partIdx, s, e) ==
    /\ pc = "idle" /\ dl.st = "idle"
    /\ Returned("getNumChords", NumChords(parts, partIdx, s, e))
    /\ UNCHANGED <<partIdxR, partIdxL, measStartIdx, measEndIdx, dl, sent, pc,
                   builderVars>>

----------------------------------------------------------------------------
(***************************************************************************)
(* Composition::noteToCmd and Composition::download.  A command is a       *)
(* record of the fields of its text.  serial.send() blocks download()      *)
(* until the exchange has ended: download is the call up to its first      *)
(* serial.send(), serialSendReturns is the rest of the call from one       *)
(* serial.send() to the next or to the return.                             *)
(***************************************************************************)
\* static_cast<uint32_t>(note.length * 60 * 1000 / bpm), for a length that is
\* a number and a bpm that is not 0 (the timelines exported here).
DurationMs(length, perMinute) ==
    (length[1] * 60 * 1000) \div (length[2] * perMinute)

\* The frequency C_0_FREQ * twelth_root_of_two^n, cast to uint32_t, stays
\* <<n>> (octaveAdjust is 1.f); <<>> is frequency 0.
noteToCmd(note, chan, jingleIdx, noteIdx, chordIdx) ==
    [cmd |-> "jingle note",
     jingleIdx |-> jingleIdx,
     chan |-> IF chan = "LEFT" THEN "left" ELSE "right",
     noteIdx |-> noteIdx,
     duty |-> 128,
     frequency |-> IF chordIdx < Len(note.frequencies)
                   THEN note.frequencies[chordIdx + 1] ELSE <<>>,
     duration_ms |-> DurationMs(note.length, bpm)]

\* "jingle add <num_notes> <num_notes>"
AddCmd(num_notes) == [cmd |-> "jingle add", args |-> <<num_notes, num_notes>>]

\* The notes of a part, measure by measure.
RECURSIVE NotesFrom(_, _)
NotesFrom(part, meas_idx) ==
    IF meas_idx >= Len(part.measures) THEN <<>>
    ELSE part.measures[meas_idx + 1].notes \o NotesFrom(part, meas_idx + 1)

\* const int parts_idx = 0
parts_idx == 0

\* DownloadCmds with the LEFT command of a note before its RIGHT command.
DownloadCmds_LeftFirst(jingleIdx) ==
    LET notes == NotesFrom(parts[parts_idx + 1], 0)
    IN  [k \in 1..(1 + 2 * Len(notes)) |->
            IF k = 1 THEN AddCmd(Len(notes))
            ELSE LET note_cnt == (k - 2) \div 2
                 IN  noteToCmd(notes[note_cnt + 1],
                               IF (k - 2) % 2 = 0 THEN "LEFT" ELSE "RIGHT",
                               jingleIdx, note_cnt, 0)]

\* DownloadCmds with a note_cnt that is static: it goes on from the note
\* commands of the download before.
DownloadCmds_StaticNoteCnt(jingleIdx) ==
    LET notes == NotesFrom(parts[parts_idx + 1], 0)
        before == IF prev.sent = <<>> THEN 0 ELSE (Len(prev.sent) - 1) \div 2
    IN  [k \in 1..(1 + 2 * Len(notes)) |->
            IF k = 1 THEN AddCmd(Len(notes))
            ELSE LET note_cnt == (k - 2) \div 2
                 IN  noteToCmd(notes[note_cnt + 1],
                               IF (k - 2) % 2 = 0 THEN "RIGHT" ELSE "LEFT",
                               jingleIdx, before + note_cnt, 0)]

\* The commands of a download in the order of its serial.send() calls: the
\* add command, then for every note of every measure of parts[parts_idx] a
\* RIGHT and a LEFT note command with note_cnt and chord index 0.
DownloadCmds(jingleIdx) ==
    LET notes == NotesFrom(parts[parts_idx + 1], 0)
    IN  [k \in 1..(1 + 2 * Len(notes)) |->
            IF k = 1 THEN AddCmd(Len(notes))
            ELSE LET note_cnt == (k - 2) \div 2
                 IN  noteToCmd(notes[note_cnt + 1],
                               IF (k - 2) % 2 = 0 THEN "RIGHT" ELSE "LEFT",
                               jingleIdx, note_cnt, 0)]

download(jingleIdx) ==
    /\ pc = "idle" /\ dl.st = "idle"
    /\ IF parts_idx >= Len(parts)
       THEN /\ Returned("download", "NO_ERROR")
            /\ sent' = <<>>
            /\ dl' = [st |-> "idle", jingleIdx |-> jingleIdx]
       ELSE /\ sent' = <<DownloadCmds(jingleIdx)[1]>>
            /\ dl' = [st |-> "waiting", jingleIdx |-> jingleIdx]
            /\ ret' = [op |-> "download", val |-> "running"]
    /\ UNCHANGED <<partIdxR, partIdxL, measStartIdx, measEndIdx, pc, builderVars>>

\* serialSendReturns that does not look at the error code of serial.send().
serialSendReturns_IgnoresError(ok) ==
    /\ dl.st = "waiting"
    /\ LET cmds == DownloadCmds(dl.jingleIdx)
           k == Len(sent)
       IN  IF k < Len(cmds)
           THEN sent' = Append(sent, cmds[k + 1]) /\ dl' = dl /\ ret' = ret
           ELSE /\ Returned("download", "NO_ERROR")
                /\ dl' = [dl EXCEPT !.st = "idle"]
                /\ sent' = sent
    /\ UNCHANGED <<partIdxR, partIdxL, measStartIdx, measEndIdx, pc, builderVars>>

\* serial.send() returns to download(): an error ends the download with
\* CMD_ERR, otherwise the next command goes out, or the loops have ended.
serialSendReturns(ok) ==
    /\ dl.st = "waiting"
    /\ LET cmds == DownloadCmds(dl.jingleIdx)
           k == Len(sent)
       IN  IF ~ok
           THEN /\ Returned("download", "CMD_ERR")
                /\ dl' = [dl EXCEPT !.st = "idle"]
                /\ sent' = sent
           ELSE IF k < Len(cmds)
           THEN sent' = Append(sent, cmds[k + 1]) /\ dl' = dl /\ ret' = ret
           ELSE /\ Returned("download", "NO_ERROR")
                /\ dl' = [dl EXCEPT !.st = "idle"]
                /\ sent' = sent
    /\ UNCHANGED <<partIdxR, partIdxL, measStartIdx, measEndIdx, pc, builderVars>>

----------------------------------------------------------------------------
(***************************************************************************)
(* SpecExport: a Composition that has parsed a file, and a caller that     *)
(* configures, queries and downloads it.  The timelines are those parse()  *)
(* builds from a file without backups: every part has a measure, the first *)
(* measure of a part has a note (a note creates the part and its first     *)
(* measure), a note has a first frequency and chord members after it.      *)
(***************************************************************************)
PlainNote == [frequencies |-> << <<48>> >>, length |-> <<1, 1>>]
ChordNote == [frequencies |-> << <<50>>, <<54>> >>, length |-> <<2, 1>>]

\* The notes of a measure: plain notes and chords in turn.
MeasureNotes ==
    {[i \in 1..n |-> IF i % 2 = 1 THEN PlainNote ELSE ChordNote] : n \in 0..MaxNotes}

\* A measure keeps the sum of the raw durations of its notes (divisions 1).
MeasureOf(notes) ==
    [notes |-> notes,
     xmlDurationSum |-> SumSeq([n \in 1..Len(notes) |-> notes[n].length[1]])]

ParsedMeasures == {MeasureOf(notes) : notes \in MeasureNotes}

ParsedParts ==
    {[measures |-> ms] :
        ms \in {m \in UNION {[1..n -> ParsedMeasures] : n \in 1..MaxMeas} :
                    m[1].notes # <<>>}}

Timelines == UNION {[1..n -> ParsedParts] : n \in 0..MaxParts}

InitExport ==
    /\ parts \in Timelines
    /\ currPart = Len(parts)
    /\ currDivisions = 1
    /\ bpm = 100
    /\ backups = <<>>
    /\ prevParts = <<>>
    /\ pc = "idle"
    /\ rc = "NO_ERROR"
    /\ afterNote = FALSE
    /\ msg = "none"
    /\ scopeDur = <<>>
    /\ scopeSum = <<>>
    /\ doc = <<>>
    /\ pos = 1
    /\ partIdxR = 0
    /\ partIdxL = 0
    /\ measStartIdx = 0
    /\ measEndIdx = 0
    /\ ret = [op |-> "none", val |-> 0]
    /\ dl = [st |-> "idle", jingleIdx |-> 0]
    /\ sent = <<>>
    /\ pass = 0
    /\ first = [rc |-> "NONE", parts |-> <<>>]
    /\ resp = <<>>
    /\ prev = NoRun
    /\ owners = {}
    /\ buff = [i \in 0..(BuffSize - 1) |-> 0]
    /\ buff_cnt = 0

SetPartIdxCall ==
    \E chan \in Channels, partIdx \in PartIdxArgs :
        setPartIdx(chan, partIdx) /\ UNCHANGED auxVars

SetMeasStartIdxCall ==
    \E idx \in MeasIdxArgs : setMeasStartIdx(idx) /\ UNCHANGED auxVars

SetMeasEndIdxCall ==
    \E idx \in MeasIdxArgs : setMeasEndIdx(idx) /\ UNCHANGED auxVars

GetMemUsageCall == getMemUsage /\ UNCHANGED auxVars

GetNumChordsCall ==
    \E partIdx \in PartIdxArgs, s \in MeasIdxArgs, e \in MeasIdxArgs :
        getNumChords(partIdx, s, e) /\ UNCHANGED auxVars

DownloadCall ==
    \E jingleIdx \in JingleIdxs : download(jingleIdx) /\ UNCHANGED auxVars

SerialExchange ==
    \E ok \in BOOLEAN : serialSendReturns(ok) /\ UNCHANGED auxVars

NextExport ==
    \/ SetPartIdxCall
    \/ SetMeasStartIdxCall
    \/ SetMeasEndIdxCall
    \/ GetMemUsageCall
    \/ GetNumChordsCall
    \/ DownloadCall
    \/ SerialExchange

SpecExport == InitExport /\ [][NextExport]_vars

----------------------------------------------------------------------------
(***************************************************************************)
(* SpecRuns: downloads made one after the other on a timeline of one part, *)
(* to either slot, with the measure range moved in between.  The caller    *)
(* keeps the answers of the serial port and the commands of the download   *)
(* that returned last.                                                     *)
(***************************************************************************)
RunJingleIdxs == {0, 1}

Config == <<partIdxR, partIdxL, measStartIdx, measEndIdx>>

InitRuns == InitExport /\ Len(parts) <= 1

\* What the caller keeps of a download that has returned.
RunRecord(answers, cmds, jingleIdx) ==
    [made |-> TRUE, cfg |-> Config, jingleIdx |-> jingleIdx, resp |-> answers,
     sent |-> cmds]

RunSetMeasEndIdx ==
    \E idx \in MeasIdxArgs : setMeasEndIdx(idx) /\ UNCHANGED auxVars

RunDownload ==
    \E jingleIdx \in RunJingleIdxs :
        /\ download(jingleIdx)
        /\ resp' = <<>>
        /\ prev' = IF dl'.st = "idle" THEN RunRecord(<<>>, sent', jingleIdx) ELSE prev
        /\ UNCHANGED <<owners, consoleVars>>

RunExchange ==
    \E ok \in BOOLEAN :
        /\ serialSendReturns(ok)
        /\ resp' = Append(resp, ok)
        /\ prev' = IF dl'.st = "idle"
                   THEN RunRecord(resp', sent', dl.jingleIdx) ELSE prev
        /\ UNCHANGED <<owners, consoleVars>>

NextRuns == RunSetMeasEndIdx \/ RunDownload \/ RunExchange

SpecRuns == InitRuns /\ [][NextRuns]_vars

----------------------------------------------------------------------------
(***************************************************************************)
(* SpecReparse: the caller calls parse() again on the same Composition     *)
(* and the same file, which opens both times.  parse() clears parts and    *)
(* currPart; the other members stay as the pass before left them.          *)
(***************************************************************************)
MaxPasses == 2
MaxReparseLen == 3

ReparseDocs == UNION {[1..n -> DocTokens] : n \in 0..MaxReparseLen}

InitReparse == InitComposition /\ doc \in ReparseDocs /\ pos = 1

\* A call of parse(): the reader starts at the head of the file.  The
\* caller keeps what the first call gave when it calls again.
ParseCall ==
    /\ pass < MaxPasses
    /\ parse
    /\ pc' = "parsing"
    /\ pos' = 1
    /\ doc' = doc
    /\ pass' = pass + 1
    /\ first' = IF pass = 1 THEN [rc |-> rc, parts |-> parts] ELSE first
    /\ UNCHANGED <<exportVars, auxVars>>

NextReparse == ParseCall \/ DocToken \/ DocEnd

SpecReparse == InitReparse /\ [][NextReparse]_vars

----------------------------------------------------------------------------
(***************************************************************************)
(* SpecPitch: one parse pass over notes of any pitch.  The inputs are the  *)
(* step letter and the values of alter and octave that parseXmlPitch has   *)
(* read (0 where the child is missing); the octaves go below 0.            *)
(***************************************************************************)
MaxOctave == 1      \* octaves are -1..MaxOctave
MaxAlter == 1       \* alters are -MaxAlter..MaxAlter

AllSteps == {"C", "D", "E", "F", "G", "A", "B", "H"}
AllAlters == (0 - MaxAlter)..MaxAlter
AllOctaves == (0 - 1)..MaxOctave

PitchParse == rc = "NONE" /\ parse /\ UNCHANGED <<doc, pos, exportVars, passVars, auxVars>>

\* A <note> with a duration of one division and a <pitch>.
NoteOfPitch(step, alter, octave) ==
    parseXmlNote(FALSE, TRUE, 1, TRUE, step, alter, octave)
    /\ UNCHANGED <<doc, pos, exportVars, passVars, auxVars>>

PitchNoteElement ==
    \E step \in AllSteps, alter \in AllAlters, octave \in AllOctaves :
        NoteOfPitch(step, alter, octave)

PitchEndOfDocument == EndDocument /\ UNCHANGED <<doc, pos, exportVars, passVars, auxVars>>

NextPitch ==
    \/ PitchParse
    \/ PitchNoteElement
    \/ PitchEndOfDocument

SpecPitch == Init /\ [][NextPitch]_vars

----------------------------------------------------------------------------
(***************************************************************************)
(* Properties of the score builder.                                        *)
(***************************************************************************)
Depth == Len(backups)

\* The stacks as parseXmlNote sees them after its entry check.
AtEntry == EntryPop(Stacks(backups, prevParts, currPart))

\* A <note> that carries a duration and a valid pitch, and one with any pitch.
PitchedNote(isChord, durText) ==
    parseXmlNote(isChord, TRUE, durText, TRUE, "D", 0, 0) /\ UNCHANGED <<doc, pos, exportVars, passVars, auxVars>>

AnyNote(isChord, durText) ==
    \E step \in PitchSteps :
        parseXmlNote(isChord, TRUE, durText, TRUE, step, 0, 0) /\ UNCHANGED <<doc, pos, exportVars, passVars, auxVars>>

\* The note counts, measure by measure, and the notes of the measures of ps
\* as they are in qs.
MeasureSizes(ps) ==
    [p \in 1..Len(ps) |->
        [m \in 1..Len(ps[p].measures) |-> Len(ps[p].measures[m].notes)]]

SameNotesIn(ps, qs) ==
    /\ Len(qs) >= Len(ps)
    /\ \A p \in 1..Len(ps) :
          /\ Len(qs[p].measures) >= Len(ps[p].measures)
          /\ \A m \in 1..Len(ps[p].measures) :
                qs[p].measures[m].notes = ps[p].measures[m].notes

SameMeasureCount(ps) ==
    \A p, q \in 1..Len(ps) : Len(ps[p].measures) = Len(ps[q].measures)

\* C1: in every reachable state of the builder, also after a parse error,
\* the backup stack and the part-restore stack have the same depth.
C1_StacksSameDepth == Len(backups) = Len(prevParts)

\* C1 witness: a parse that failed with two scopes open.
C1_Witness ==
    pc = "idle" /\ rc = "XML_PARSE" /\ Len(backups) = 2 /\ currPart < Len(parts)

\* C2, as claimed: after a backup of duration D the stack is empty exactly
\* when the notes of the scope sum to D.  For a scope that is still on the
\* stack this says that its notes do not sum to D.  (Stated where the part
\* under the cursor exists.)
C2_EmptyExactlyWhenPaid ==
    currPart < Len(parts) =>
        \A i \in 1..Len(scopeDur) : (backups = <<>>) <=> (scopeSum[i] = scopeDur[i])

\* C2, amended: while the scope a backup of duration D opened is on the stack
\* and its notes have not exceeded D, its counter is D minus the sum of the
\* raw durations of the non-chord notes committed in it: the counter, not
\* the stack, tells that the notes sum to D.
C2_CounterIsDurationLessSum ==
    /\ Len(scopeDur) = Len(backups)
    /\ Len(scopeSum) = Len(backups)
    /\ \A i \in 1..Len(backups) :
          scopeSum[i] <= scopeDur[i] => backups[i] = scopeDur[i] - scopeSum[i]

\* C2 witness: the notes of the open scope sum to D (two units) and the scope
\* is still on the stack, with counter zero.
C2_Witness ==
    /\ pc = "parsing"
    /\ currPart < Len(parts)
    /\ backups # <<>>
    /\ scopeDur[Depth] = 2
    /\ scopeSum[Depth] = 2
    /\ backups[Depth] = 0

\* C3: after every <measure> handled without error all parts of the timeline
\* have the same number of measures.
C3_MeasuresInLockStep ==
    [][(MeasureElement /\ pc' = "parsing") => SameMeasureCount(parts')]_vars

\* C4: <measure> or </part> with a nonzero counter anywhere on the stack
\* fails the parse, appends no measure and does not advance the cursor.
C4_UnresolvedBackupFails ==
    [][((MeasureElement \/ PartEndElement)
            /\ \E i \in 1..Len(backups) : backups[i] # 0)
        => /\ pc' = "idle"
           /\ rc' = "XML_PARSE"
           /\ parts' = parts
           /\ currPart' <= currPart]_vars

\* C4 witness: a parse ended by the drain loop, with the open scope left.
C4_Witness ==
    pc = "idle" /\ msg = "UnresolvedBackup" /\ backups # <<>> /\ currPart < Len(parts)

\* C5: a non-chord note of raw duration d committed with top counter r fails
\* the parse when d > r, and otherwise leaves r - d on top and the rest of
\* the stack as it was; r - d is never below zero.
C5_NotePaysTopCounter ==
    [][\A durText \in DurTexts :
        (PitchedNote(FALSE, durText) /\ pc' # "crashed" /\ AtEntry.backups # <<>>)
        => LET bk == AtEntry.backups
               r == Last(bk)
               d == toUInt(durText)
           IN  IF d > r
               THEN pc' = "idle" /\ rc' = "XML_PARSE" /\ backups' = bk
               ELSE /\ pc' = "parsing"
                    /\ r - d >= 0
                    /\ backups' = Append(Front(bk), r - d)]_vars

\* C5 witness: a note has paid into the inner of two open scopes.
C5_Witness ==
    pc = "parsing" /\ Len(backups) = 2 /\ scopeSum[2] > 0 /\ currPart < Len(parts)

\* C6: parse() returns NO_ERROR at the end of the document only with both
\* stacks empty.
C6_SuccessOnlyWithEmptyStacks ==
    rc = "NO_ERROR" => (backups = <<>> /\ prevParts = <<>>)

\* C7: a chord-marked note right after a plain note appends one frequency to
\* that note and changes the note count of no measure.
C7_ChordJoinsPrecedingNote ==
    [][\A durText \in DurTexts :
        (afterNote /\ currPart < Len(parts) /\ PitchedNote(TRUE, durText))
        => LET p == currPart + 1
               m == Len(parts[p].measures)
               n == Len(parts[p].measures[m].notes)
           IN  /\ Len(parts') = Len(parts)
               /\ MeasureSizes(parts') = MeasureSizes(parts)
               /\ parts'[p].measures[m].notes[n].frequencies =
                      Append(parts[p].measures[m].notes[n].frequencies, <<2>>)]_vars

\* C8: a chord-marked note committed when the current measure of the current
\* part has no notes fails the parse; no note gains a frequency and no note
\* is created.
C8_ChordWithoutNoteFails ==
    [][\A durText \in DurTexts :
        LET c == AtEntry.currPart
        IN  (/\ AnyNote(TRUE, durText)
             /\ c <= Len(parts)
             /\ \/ c = Len(parts)
                \/ parts[c + 1].measures = <<>>
                \/ Last(parts[c + 1].measures).notes = <<>>)
            => /\ pc' = "idle"
               /\ rc' = "XML_PARSE"
               /\ SameNotesIn(parts, parts')
               /\ NoteCount(parts') = NoteCount(parts)
               /\ FreqCount(parts') = FreqCount(parts)]_vars

\* C8 witness: the parse failed on a chord in an existing part whose current
\* measure is empty, with a note elsewhere in the timeline.
C8_Witness ==
    /\ pc = "idle"
    /\ msg = "ChordWithoutNote"
    /\ currPart < Len(parts)
    /\ Last(parts[currPart + 1].measures).notes = <<>>
    /\ NoteCount(parts) > 0

\* C9: a <backup> whose duration is zero or missing fails the parse and
\* leaves both stacks and the cursor as they were.
C9_ZeroBackupFails ==
    [][\A hasDur \in BOOLEAN, durText \in DurTexts :
        (/\ parseXmlBackup(hasDur, durText)
         /\ (~hasDur \/ toUInt(durText) = 0))
        => /\ pc' = "idle"
           /\ rc' = "XML_PARSE"
           /\ UNCHANGED <<backups, prevParts, currPart>>]_vars

\* C9 witness: the parse failed on a zero backup met inside an open scope.
C9_Witness ==
    pc = "idle" /\ msg = "ZeroBackup" /\ backups # <<>> /\ currPart < Len(parts)


\* The document of C10: one part, one measure, divisions 4, one note of
\* duration 4 without chord marker, no backup.
C10_Doc ==
    <<Token("measure", FALSE, 0, ""), Token("divisions", FALSE, 4, ""),
      Token("note", FALSE, 4, "C"), Token("endpart", FALSE, 0, "")>>

\* C10: parsing that document succeeds and gives one Part with one Measure
\* with one Note of length 1 (4 / 4) and one frequency.
C10_OneNoteDocument ==
    (doc = C10_Doc /\ pc = "idle" /\ rc \notin {"NONE", "FILE_OPEN"})
    => /\ rc = "NO_ERROR"
       /\ Len(parts) = 1
       /\ Len(parts[1].measures) = 1
       /\ Len(parts[1].measures[1].notes) = 1
       /\ parts[1].measures[1].notes[1].length = <<1, 1>>
       /\ Len(parts[1].measures[1].notes[1].frequencies) = 1

\* C10 witness: the parse of that document has returned NO_ERROR.
C10_Witness == doc = C10_Doc /\ pc = "idle" /\ rc = "NO_ERROR"

----------------------------------------------------------------------------
(***************************************************************************)
(* Properties of the export side.                                          *)
(***************************************************************************)
\* The measure count of the first part (0 without parts).
FirstPartMeasures == IF parts = <<>> THEN 0 ELSE Len(parts[1].measures)

\* C11: setMeasStartIdx or setMeasEndIdx with an index equal to or beyond the
\* measure count of the first part returns BAD_IDX and leaves the stored
\* start index and end index as they were, whatever they are.
C11_BadMeasIdxRejected ==
    [][\A idx \in MeasIdxArgs :
        ((setMeasStartIdx(idx) \/ setMeasEndIdx(idx)) /\ idx >= FirstPartMeasures)
        => /\ ret'.val = "BAD_IDX"
           /\ UNCHANGED <<measStartIdx, measEndIdx>>]_vars

\* C12: setPartIdx(chan, partIdx) with partIdx at or beyond the part count
\* returns BAD_IDX and leaves both part indices and the measure range as
\* they were; below the part count it returns NO_ERROR and changes the part
\* index of the named channel only.
C12_SetPartIdxContract ==
    [][\A chan \in Channels, partIdx \in PartIdxArgs :
        setPartIdx(chan, partIdx)
        => IF partIdx >= Len(parts)
           THEN /\ ret'.val = "BAD_IDX"
                /\ UNCHANGED <<partIdxR, partIdxL, measStartIdx, measEndIdx>>
           ELSE /\ ret'.val = "NO_ERROR"
                /\ UNCHANGED <<measStartIdx, measEndIdx>>
                /\ IF chan = "RIGHT"
                   THEN partIdxR' = partIdx /\ partIdxL' = partIdxL
                   ELSE partIdxL' = partIdx /\ partIdxR' = partIdxR]_vars

\* C12 witness: both channels have been given a part, the left one part 1,
\* the range has been moved, and the call that returned last was rejected.
C12_Witness ==
    /\ ret.op = "setPartIdx"
    /\ ret.val = "BAD_IDX"
    /\ partIdxL = 1
    /\ partIdxR = 0
    /\ measStartIdx = 1
    /\ Len(parts) = 2

\* The notes of the part chosen for a channel that lie in the measures
\* [measStartIdx, measEndIdx).
ChannelNotesInRange(chan) ==
    NotesInRange(parts[getPartIdx(chan) + 1], measStartIdx, measEndIdx)

\* C13: for every timeline and every configuration whose indices are in the
\* timeline, getMemUsage returns 4 + 6 x (notes of the right channel's part in
\* [start, end)) + 6 x (notes of the left channel's part in [start, end)).
C13_MemUsageIsHeaderPlusNotes ==
    [][(getMemUsage /\ MemUsageInBounds)
        => ret'.val = 4 + 6 * ChannelNotesInRange("RIGHT")
                        + 6 * ChannelNotesInRange("LEFT")]_vars

\* C14: the first command of a download is the add (allocate) command, and
\* the note count it carries is the number of notes of the right channel's
\* part in the measures [measStartIdx, measEndIdx).
C14_AllocateCountsConfiguredRange ==
    [][\A jingleIdx \in JingleIdxs :
        (download(jingleIdx) /\ parts # <<>>)
        => /\ Len(sent') = 1
           /\ sent'[1].cmd = "jingle add"
           /\ sent'[1].args[1] = ChannelNotesInRange("RIGHT")]_vars

\* The notes of measures [s, e) of a part, measure by measure.
RECURSIVE NotesBetween(_, _, _)
NotesBetween(part, s, e) ==
    IF s >= e \/ s >= Len(part.measures) THEN <<>>
    ELSE part.measures[s + 1].notes \o NotesBetween(part, s + 1, e)

\* What a note command carries of a note: the first frequency and the
\* duration in milliseconds.
CarriedOf(notes) ==
    [i \in 1..Len(notes) |->
        <<notes[i].frequencies[1], DurationMs(notes[i].length, bpm)>>]

\* What the note commands of a channel carry, in the order they were sent.
CarriedBy(cmds, chan_str) ==
    LET IsMine(c) == c.cmd = "jingle note" /\ c.chan = chan_str
        mine == SelectSeq(cmds, IsMine)
    IN  [i \in 1..Len(mine) |-> <<mine[i].frequency, mine[i].duration_ms>>]

\* The end of a download that sent commands and met no failure.
DownloadSucceeds == serialSendReturns(TRUE) /\ dl'.st = "idle"

\* C15: the note commands a download has sent for a channel carry the notes
\* of the part chosen for that channel that lie in the measures
\* [measStartIdx, measEndIdx), in measure order then note order; none when
\* measStartIdx >= measEndIdx.
C15_ChannelsCarryConfiguredNotes ==
    [][DownloadSucceeds
        => /\ CarriedBy(sent', "right") =
                 CarriedOf(NotesBetween(parts[partIdxR + 1], measStartIdx, measEndIdx))
           /\ CarriedBy(sent', "left") =
                 CarriedOf(NotesBetween(parts[partIdxL + 1], measStartIdx, measEndIdx))]_vars

\* C16: a download that meets no failure sends one add command and then,
\* for the notes it exports in measure order then note order, a "right" note
\* command and right after it a "left" note command with the same note index;
\* the note indices are 0, 1, 2, ... and every note command carries the
\* first frequency (chord member 0) of its note.
C16_RightThenLeftInOrder ==
    [][DownloadSucceeds
        => LET notes == NotesFrom(parts[parts_idx + 1], 0)
               K == Len(notes)
           IN  /\ Len(sent') = 1 + 2 * K
               /\ sent'[1].cmd = "jingle add"
               /\ \A k \in 2..Len(sent') : sent'[k].cmd = "jingle note"
               /\ \A i \in 0..(K - 1) :
                     /\ sent'[2 + 2 * i].chan = "right"
                     /\ sent'[3 + 2 * i].chan = "left"
                     /\ sent'[2 + 2 * i].noteIdx = i
                     /\ sent'[3 + 2 * i].noteIdx = i
                     /\ sent'[2 + 2 * i].frequency = notes[i + 1].frequencies[1]
                     /\ sent'[3 + 2 * i].frequency = notes[i + 1].frequencies[1]
                     /\ sent'[2 + 2 * i].duration_ms = DurationMs(notes[i + 1].length, bpm)
                     /\ sent'[3 + 2 * i].duration_ms = DurationMs(notes[i + 1].length, bpm)]_vars

\* C16 witness: a download of two measures with a note, a chord and a note
\* has returned NO_ERROR.
C16_Witness ==
    /\ ret.op = "download"
    /\ ret.val = "NO_ERROR"
    /\ Len(sent) = 7
    /\ Len(parts[1].measures) = 2
    /\ Len(parts[1].measures[1].notes) = 2
    /\ sent[4].frequency = <<50>>
    /\ sent[7].noteIdx = 2

\* C17: a failure of the exchange of a command ends the download with
\* CMD_ERR and sends nothing more; a command goes out only as the first of a
\* download or after the exchange before it has succeeded, and nothing goes
\* out once the download has returned.
C17_FailureEndsDownload ==
    [][/\ serialSendReturns(FALSE)
          => /\ ret'.op = "download"
             /\ ret'.val = "CMD_ERR"
             /\ dl'.st = "idle"
             /\ sent' = sent
       /\ (sent' # sent) => (DownloadCall \/ serialSendReturns(TRUE))
       /\ (sent' # sent /\ dl.st = "idle") => DownloadCall]_vars

\* C17 witness: the third note command has failed: one add command and two
\* note commands were exchanged before it, the download has returned CMD_ERR
\* with notes left to send, and another call has been made since.
C17_Witness ==
    /\ ret.op = "getMemUsage"
    /\ dl.st = "idle"
    /\ Len(sent) = 4
    /\ sent[4].cmd = "jingle note"
    /\ sent[4].noteIdx = 1
    /\ Len(NotesFrom(parts[1], 0)) > 2

\* The largest number of frequencies of a note in measures [s, e) of a part.
LargestChord(part, s, e) ==
    SetMax(UNION {{Len(part.measures[m].notes[n].frequencies) :
                        n \in 1..Len(part.measures[m].notes)} :
                    m \in {mm \in 1..Len(part.measures) : s <= mm - 1 /\ mm - 1 < e}})

\* C19: getNumChords(partIdx, s, e) returns the largest number of
\* frequencies of a note in measures s..e-1 of the part when partIdx is below
\* the part count and s <= e <= the measure count of the part (a range may
\* end at the last measure), and 0 otherwise.
C19_NumChordsOverHalfOpenRange ==
    [][\A partIdx \in PartIdxArgs, s \in MeasIdxArgs, e \in MeasIdxArgs :
        getNumChords(partIdx, s, e)
        => ret'.val = IF /\ partIdx < Len(parts)
                         /\ s <= e
                         /\ e <= Len(parts[partIdx + 1].measures)
                      THEN LargestChord(parts[partIdx + 1], s, e)
                      ELSE 0]_vars

----------------------------------------------------------------------------
(***************************************************************************)
(* Properties of the pitch resolver.                                       *)
(***************************************************************************)
\* The half steps above C0 of a step letter, as the specification lists them.
HalfStepsOfLetter ==
    "C" :> 0 @@ "D" :> 2 @@ "E" :> 4 @@ "F" :> 5 @@ "G" :> 7 @@ "A" :> 9 @@ "B" :> 11

\* The frequencies of the note parse() committed last.
LastNoteFrequencies(ps) == Last(Last(Last(ps).measures).notes).frequencies

\* C18: for every pitch with a step letter C..B the frequency of the note is
\* C0 times the twelfth root of two to the power h = octave*12 + alter +
\* stepOffset: the exponent is h, also for h below zero.
C18_ExponentIsHalfSteps ==
    [][\A step \in DOMAIN HalfStepsOfLetter, alter \in AllAlters, octave \in AllOctaves :
        NoteOfPitch(step, alter, octave)
        => /\ pc' = "parsing"
           /\ LastNoteFrequencies(parts') =
                 << <<octave * 12 + alter + HalfStepsOfLetter[step]>> >>]_vars

----------------------------------------------------------------------------
(***************************************************************************)
(* Properties of parse() called again.                                     *)
(***************************************************************************)
\* C20: a second parse() of the same file on the same Composition starts
\* with an empty backup stack and an empty part-restore stack, and returns
\* the code and leaves the timeline that the first parse(), on the fresh
\* Composition, returned and left.
C20_ReparseGivesTheSame ==
    [][/\ ParseCall => (backups' = <<>> /\ prevParts' = <<>>)
       /\ (pass = 2 /\ pc = "parsing" /\ pc' = "idle")
          => (rc' = first.rc /\ parts' = first.parts)]_vars

----------------------------------------------------------------------------
(***************************************************************************)
(* Properties of repeated downloads.                                       *)
(***************************************************************************)
\* A download returns, after the answer of the serial port to a command.
RunReturns == RunExchange /\ dl'.st = "idle"

----------------------------------------------------------------------------
(***************************************************************************)
(* Properties of the current-part cursor.                                  *)
(***************************************************************************)
\* C22: when a note with a valid pitch is committed, the cursor is a valid
\* index of parts (currPart < parts.size()) once the current part has been
\* ensured, whatever came before the note.
C22_CursorValidAfterEnsure ==
    [][\A isChord \in BOOLEAN, durText \in DurTexts :
        PitchedNote(isChord, durText) => currPart' < Len(parts')]_vars

\* The smaller of two numbers.
Min(a, b) == IF a < b THEN a ELSE b

\* C23: a backup of duration D > 0 pushes D and the cursor and moves the
\* cursor on by one; what was pushed stays as it is while it is on the
\* stack; and when scopes close (at the entry of a note, at a measure, at the
\* end of a part) the cursor goes back to what it was before the backup of
\* the outermost scope closed, the end of a part then moving it on by one.
C23_ScopesBracketCursor ==
    [][/\ \A hasDur \in BOOLEAN, durText \in DurTexts :
            (parseXmlBackup(hasDur, durText) /\ hasDur /\ toUInt(durText) > 0)
            => /\ backups' = Append(backups, toUInt(durText))
               /\ prevParts' = Append(prevParts, currPart)
               /\ currPart' = currPart + 1
       /\ \A i \in 1..Min(Len(prevParts), Len(prevParts')) :
              prevParts'[i] = prevParts[i]
       /\ Len(backups') < Len(backups)
          => currPart' = prevParts[Len(backups') + 1]
                         + (IF PartEndElement /\ pc' = "parsing" THEN 1 ELSE 0)]_vars

\* C23 witness: a note went to part 0, a backup sent the next note to part 1
\* and used up its duration, and the note after it closed the scope on entry
\* and went to part 0 again, no measure having started in between.
C23_Witness ==
    /\ pc = "parsing"
    /\ afterNote
    /\ backups = <<>>
    /\ currPart = 0
    /\ Len(parts) = 2
    /\ Len(parts[1].measures) = 1
    /\ Len(parts[2].measures) = 1
    /\ Len(parts[1].measures[1].notes) = 2
    /\ Len(parts[2].measures[1].notes) = 1

(***************************************************************************)
(* Properties of the divisions per quarter note.                           *)
(***************************************************************************)

\* C24: the divisions per quarter note are positive in every state of the
\* builder, whatever the text of a divisions element was.
C24_DivisionsPositive == currDivisions > 0

----------------------------------------------------------------------------
(***************************************************************************)
(* The voices of a document: one parse pass over documents of notes,       *)
(* backups, measures and ends of parts.  owners records, for every note    *)
(* the pass commits, the Part of the timeline it went to and the source    *)
(* part (the number of </part> read before it) it came from.               *)
(***************************************************************************)
MaxVoiceDocLen == 5

VoiceTokens ==
    {Token("measure", FALSE, 0, ""), Token("endpart", FALSE, 0, ""),
     Token("note", FALSE, 4, "C"), Token("backup", FALSE, 4, "")}

VoiceDocs == UNION {[1..n -> VoiceTokens] : n \in 0..MaxVoiceDocLen}

InitVoices == InitComposition /\ doc \in VoiceDocs /\ pos = 1

\* The source part the reader is in: the </part> read so far.
SourcePart == Cardinality({i \in 1..(pos - 1) : doc[i].el = "endpart"})

VoicesParse ==
    /\ rc = "NONE"
    /\ parse
    /\ owners' = {}
    /\ UNCHANGED <<doc, pos, exportVars, passVars, runVars, consoleVars>>

VoicesToken ==
    /\ pos <= Len(doc)
    /\ Dispatch(doc[pos])
    /\ pos' = pos + 1
    /\ doc' = doc
    /\ owners' = IF FreqCount(parts') > FreqCount(parts)
                 THEN owners \cup {<<currPart', SourcePart>>}
                 ELSE owners
    /\ UNCHANGED <<exportVars, passVars, runVars, consoleVars>>

VoicesEnd ==
    /\ pos > Len(doc)
    /\ EndDocument
    /\ UNCHANGED <<doc, pos, exportVars, passVars, auxVars>>

NextVoices == VoicesParse \/ VoicesToken \/ VoicesEnd

SpecVoices == InitVoices /\ [][NextVoices]_vars

\* C25: the notes of one Part of the timeline come from one source part: no
\* Part has received notes read in two different source parts.
C25_OnePartOneSource ==
    \A a \in owners : \A b \in owners : a[1] = b[1] => a[2] = b[2]

----------------------------------------------------------------------------
(***************************************************************************)
(* Properties of what getMemUsage reads.                                   *)
(***************************************************************************)

\* C26: whenever getMemUsage is called on a parsed timeline, with whatever
\* configuration the setters have left, both part indices are below the
\* number of parts and every measure index of [measStartIdx, measEndIdx) is
\* below the number of measures of both selected parts.
C26_MemUsageReadsInsideTimeline ==
    [][GetMemUsageCall => MemUsageInBounds]_vars

----------------------------------------------------------------------------
(***************************************************************************)
(* The command line of the development board: handleSerial (cmdline.c).    *)
(* buff and buff_cnt are the statics of the handler.  getUsbSerialData is  *)
(* the environment: it stores the bytes received at the address given, at  *)
(* most as many as asked for, and returns their number, or a negative      *)
(* value.                                                                  *)
(***************************************************************************)

\* The bytes the serial line delivers: two letters, '\b' and DEL.
ConsoleBytes == {97, 98, 8, 127}

\* case 127: case '\b':
IsErase(b) == b \in {8, 127}

Batches == UNION {[1..n -> ConsoleBytes] : n \in 0..(BuffSize - 1)}

\* getUsbSerialData(&buff[at], ...) has stored data.
Store(b, at, data) ==
    [i \in DOMAIN b |->
        IF at <= i /\ i < at + Len(data) THEN data[i - at + 1] ELSE b[i]]

\* for (; rd_idx < buff_cnt; rd_idx++) switch (buff[rd_idx]) ...
RECURSIVE EditLoop(_, _, _, _)
EditLoop(b, cnt, rd_idx, wr_idx) ==
    IF ~(rd_idx < cnt)
    THEN [buff |-> b, buff_cnt |-> cnt, rd_idx |-> rd_idx, wr_idx |-> wr_idx]
    ELSE IF IsErase(b[rd_idx])
    THEN EditLoop(b, IF cnt > 1 THEN cnt - 2 ELSE 0, rd_idx + 1,
                  IF wr_idx # 0 THEN wr_idx - 1 ELSE wr_idx)
    ELSE EditLoop([b EXCEPT ![wr_idx] = b[rd_idx]], cnt, rd_idx + 1, wr_idx + 1)

\* What the loop of handleSerial leaves when data has been received.
Edit(data) ==
    EditLoop(Store(buff, buff_cnt, data), buff_cnt + Len(data), buff_cnt, buff_cnt)

\* One call of handleSerial: bytes_rcvd is what getUsbSerialData returns and
\* data the bytes it has stored.
handleSerial(bytes_rcvd, data) ==
    /\ IF buff_cnt < BuffSize
       THEN /\ bytes_rcvd \in -1..(BuffSize - 1 - buff_cnt)
            /\ Len(data) = IF bytes_rcvd < 0 THEN 0 ELSE bytes_rcvd
       ELSE bytes_rcvd = -1 /\ data = <<>>
    /\ IF bytes_rcvd = 0
       THEN UNCHANGED consoleVars
       ELSE IF bytes_rcvd < 0
       THEN \* the input stream is flushed into buff
            /\ buff_cnt' = 0
            /\ \E flushed \in Batches : buff' = Store(buff, 0, flushed)
       ELSE /\ buff' = Edit(data).buff
            /\ buff_cnt' = Edit(data).buff_cnt

HandleSerialCall ==
    \E bytes_rcvd \in -1..(BuffSize - 1), data \in Batches :
        /\ handleSerial(bytes_rcvd, data)
        /\ UNCHANGED <<pc, builderVars, exportVars, runVars, owners>>

NextConsole == HandleSerialCall

SpecConsole == Init /\ [][NextConsole]_vars

\* The characters of a line after the bytes of data have been typed on it: a
\* '\b' or DEL takes the character before it away, any other byte is added.
RECURSIVE Typed(_, _)
Typed(line, data) ==
    IF data = <<>> THEN line
    ELSE IF IsErase(Head(data))
    THEN Typed(IF line = <<>> THEN <<>> ELSE Front(line), Tail(data))
    ELSE Typed(Append(line, Head(data)), Tail(data))

\* buff[0..cnt) as a sequence.
Line(b, cnt) == [i \in 1..cnt |-> b[i - 1]]

\* C27: after a call of handleSerial that has received bytes, buff_cnt is the
\* write index the edit loop has reached, the loop has examined every byte
\* received, buff[0..buff_cnt) holds the characters that are left when each
\* '\b' or DEL has taken away the character before it, and buff_cnt is not
\* above the size of buff.
C27_CountIsWriteIndex ==
    [][\A bytes_rcvd \in 1..(BuffSize - 1), data \in Batches :
        handleSerial(bytes_rcvd, data)
        => /\ buff_cnt' = Edit(data).wr_idx
           /\ Edit(data).rd_idx = buff_cnt + bytes_rcvd
           /\ buff_cnt' <= BuffSize
           /\ Line(buff', buff_cnt') = Typed(Line(buff, buff_cnt), data)]_vars

====
